---- MODULE Spec2Model ----
(***************************************************************************)
(* Model of app/main.py: the page renderer page(message), the Flask route  *)
(* '/' bound to get_page, and the request handling around them.            *)
(*                                                                         *)
(* A Python str is a sequence of Unicode code points (naturals); a bytes   *)
(* object is a sequence of naturals below 256.                             *)
(***************************************************************************)
EXTENDS Integers, Sequences, FiniteSets, TLC

(***************************************************************************)
(* State.  Callers of page (test_main.py line 16 calls main.page itself)   *)
(* and the Flask application serving requests.                             *)
(***************************************************************************)
VARIABLES
    probe,      \* the message a caller of page is about to pass
    first,      \* <<>> or <<c>>: the first call page(probe) and its outcome
    cur,        \* <<>> or <<c>>: the latest call of page and its outcome
    url_map,    \* app.url_map: the rules registered on the Flask object
    pc,         \* per server thread: where it is in handling its request
    req,        \* per server thread: the request it handles
    message,    \* per server thread: get_page's local, main.py line 47
    html,       \* per server thread: page's local, main.py lines 23-36
    resp,       \* per server thread: the response it produced
    firstGet,   \* <<>> or <<r>>: the first response delivered for GET '/'
    served      \* number of requests accepted so far

pageVars == <<probe, first, cur>>
httpVars == <<url_map, pc, req, message, html, resp, firstGet, served>>
vars == <<probe, first, cur, url_map, pc, req, message, html, resp, firstGet, served>>

(***************************************************************************)
(* The template literal of page(), main.py lines 23-36, one definition per *)
(* source line, as code points.                                            *)
(***************************************************************************)
\* main.py line 23: '\n'
TemplateL23 ==
    <<10>>

\* main.py line 24: '        <html>\n'
TemplateL24 ==
    <<32, 32, 32, 32, 32, 32, 32, 32, 60, 104, 116, 109, 108, 62, 10>>

\* main.py line 25: '        <head lang> \n'
TemplateL25 ==
    <<32, 32, 32, 32, 32, 32, 32, 32, 60, 104, 101, 97, 100, 32, 108, 97, 110, 103, 62, 32, 10>>

\* main.py line 26: '            <meta charset="utf-8">\n'
TemplateL26 ==
    <<32, 32, 32, 32, 32, 32, 32, 32, 32, 32, 32, 32, 60, 109, 101, 116, 97, 32, 99, 104, 97, 114, 115, 101, 116, 61, 34, 117, 116, 102, 45, 56, 34, 62, 10>>

\* main.py line 27: '            <title>Index</title>\n'
TemplateL27 ==
    <<32, 32, 32, 32, 32, 32, 32, 32, 32, 32, 32, 32, 60, 116, 105, 116, 108, 101, 62, 73, 110, 100, 101, 120, 60, 47, 116, 105, 116, 108, 101, 62, 10>>

\* main.py line 28: '        </head>\n'
TemplateL28 ==
    <<32, 32, 32, 32, 32, 32, 32, 32, 60, 47, 104, 101, 97, 100, 62, 10>>

\* main.py line 29: '        <body>\n'
TemplateL29 ==
    <<32, 32, 32, 32, 32, 32, 32, 32, 60, 98, 111, 100, 121, 62, 10>>

\* main.py line 30: '            <div style='font-size:60px;'>\n'
TemplateL30 ==
    <<32, 32, 32, 32, 32, 32, 32, 32, 32, 32, 32, 32, 60, 100, 105, 118, 32, 115, 116, 121, 108, 101, 61, 39, 102, 111, 110, 116, 45, 115, 105, 122, 101, 58, 54, 48, 112, 120, 59, 39, 62, 10>>

\* main.py line 31: '            <center>\n'
TemplateL31 ==
    <<32, 32, 32, 32, 32, 32, 32, 32, 32, 32, 32, 32, 60, 99, 101, 110, 116, 101, 114, 62, 10>>

\* main.py line 32: '                {0}<br>\n'
TemplateL32 ==
    <<32, 32, 32, 32, 32, 32, 32, 32, 32, 32, 32, 32, 32, 32, 32, 32, 123, 48, 125, 60, 98, 114, 62, 10>>

\* main.py line 33: '            </center>\n'
TemplateL33 ==
    <<32, 32, 32, 32, 32, 32, 32, 32, 32, 32, 32, 32, 60, 47, 99, 101, 110, 116, 101, 114, 62, 10>>

\* main.py line 34: '            </div>\n'
TemplateL34 ==
    <<32, 32, 32, 32, 32, 32, 32, 32, 32, 32, 32, 32, 60, 47, 100, 105, 118, 62, 10>>

\* main.py line 35: '        </body>\n'
TemplateL35 ==
    <<32, 32, 32, 32, 32, 32, 32, 32, 60, 47, 98, 111, 100, 121, 62, 10>>

\* main.py line 36: '        </html>'
TemplateL36 ==
    <<32, 32, 32, 32, 32, 32, 32, 32, 60, 47, 104, 116, 109, 108, 62>>

\* The template with the placeholder a second time, in the title.
TemplateTwoFields ==
    TemplateL23 \o TemplateL24 \o TemplateL25 \o TemplateL26
    \o SubSeq(TemplateL27, 1, 19) \o <<123, 48, 125>> \o SubSeq(TemplateL27, 25, 33)
    \o TemplateL28 \o TemplateL29 \o TemplateL30 \o TemplateL31 \o TemplateL32
    \o TemplateL33 \o TemplateL34 \o TemplateL35 \o TemplateL36

\* The template with the braces of a CSS rule in it, not doubled.
TemplateStrayBrace ==
    TemplateL23 \o TemplateL24 \o TemplateL25 \o TemplateL26 \o TemplateL27
    \o <<123, 125>>
    \o TemplateL28 \o TemplateL29 \o TemplateL30 \o TemplateL31 \o TemplateL32
    \o TemplateL33 \o TemplateL34 \o TemplateL35 \o TemplateL36

\* The triple-quoted literal that page() formats.
Template ==
    TemplateL23 \o TemplateL24 \o TemplateL25 \o TemplateL26 \o TemplateL27
    \o TemplateL28 \o TemplateL29 \o TemplateL30 \o TemplateL31 \o TemplateL32
    \o TemplateL33 \o TemplateL34 \o TemplateL35 \o TemplateL36

\* main.py line 47: "Hello CGI!!! Welcome to the world of DevOps :)"
MESSAGE ==
    <<72, 101, 108, 108, 111, 32, 67, 71, 73, 33, 33, 33, 32, 87, 101, 108, 99, 111, 109, 101, 32, 116, 111, 32, 116, 104, 101, 32, 119, 111, 114, 108, 100, 32, 111, 102, 32, 68, 101, 118, 79, 112, 115, 32, 58, 41>>

\* '{' and '}', the markup characters of str.format (main.py line 32: {0}).
LBRACE == 123
RBRACE == 125
\* '0' and '9', the digits bounding a positional field name.
DIGIT0 == 48
DIGIT9 == 57

(***************************************************************************)
(* str.format, as CPython's formatter does it: the FORMAT STRING is        *)
(* scanned left to right; "{{" and "}}" give one literal brace, a single   *)
(* "}" or an unclosed "{" raises ValueError, "{n}" is replaced by args[n]  *)
(* (IndexError when absent), "{}" by the next automatically numbered       *)
(* argument (ValueError when mixed with explicit numbers), and a field     *)
(* name that is not a number is a keyword lookup, KeyError here since no   *)
(* keyword is passed.  The argument's text is copied, never scanned.       *)
(* Conversions (!r) and format specifications (:>5) are not modelled: the  *)
(* template has none.                                                      *)
(* A result is [exc |-> "None", val |-> text] or [exc |-> E, val |-> <<>>].*)
(***************************************************************************)
Returned(text) == [exc |-> "None", val |-> text]
Raised(e) == [exc |-> e, val |-> <<>>]

\* The result r with text put in front of its value, an exception kept.
Prepend(text, r) == IF r.exc = "None" THEN Returned(text \o r.val) ELSE r

IsBrace(c) == c = LBRACE \/ c = RBRACE

\* Index of the first brace of s at or after position i, Len(s) + 1 when
\* there is none: the end of the literal text the formatter copies.
NextBrace(s, i) ==
    LET B == {k \in i..Len(s) : IsBrace(s[k])}
    IN  IF B = {} THEN Len(s) + 1 ELSE CHOOSE k \in B : \A l \in B : k <= l

\* Index of the "}" that closes the field whose text starts at position i,
\* nested braces counted, or 0 when the string ends first.
FindClose(s, i) ==
    LET Opened(k) == Cardinality({j \in i..(k - 1) : s[j] = LBRACE})
        Closed(k) == Cardinality({j \in i..(k - 1) : s[j] = RBRACE})
        C == {k \in i..Len(s) : s[k] = RBRACE /\ Opened(k) = Closed(k)}
    IN  IF C = {} THEN 0 ELSE CHOOSE k \in C : \A l \in C : k <= l

IsDigits(name) ==
    /\ Len(name) > 0
    /\ \A k \in 1..Len(name) : name[k] >= DIGIT0 /\ name[k] <= DIGIT9

\* The decimal value of a string of digits.
RECURSIVE ToInt(_)
ToInt(name) ==
    IF Len(name) = 0 THEN 0
    ELSE 10 * ToInt(SubSeq(name, 1, Len(name) - 1)) + (name[Len(name)] - DIGIT0)

\* Formatting of s from position i on. numbering is "unset", "auto" or
\* "manual"; next is the next automatic index (0-based, as in Python).
RECURSIVE FormatFrom(_, _, _, _, _)
FormatFrom(s, args, i, numbering, next) ==
    IF i > Len(s) THEN Returned(<<>>)
    ELSE IF ~IsBrace(s[i])
         THEN Prepend(SubSeq(s, i, NextBrace(s, i) - 1),
                      FormatFrom(s, args, NextBrace(s, i), numbering, next))
    ELSE IF i < Len(s) /\ s[i + 1] = s[i]
         THEN Prepend(<<s[i]>>, FormatFrom(s, args, i + 2, numbering, next))
    ELSE IF s[i] = RBRACE THEN Raised("ValueError")
    ELSE LET close == FindClose(s, i + 1)
             name == SubSeq(s, i + 1, close - 1)
         IN  IF close = 0 THEN Raised("ValueError")
             ELSE IF Len(name) = 0
                  THEN IF numbering = "manual" THEN Raised("ValueError")
                       ELSE IF next + 1 > Len(args) THEN Raised("IndexError")
                       ELSE Prepend(args[next + 1],
                                    FormatFrom(s, args, close + 1, "auto", next + 1))
             ELSE IF IsDigits(name)
                  THEN IF numbering = "auto" THEN Raised("ValueError")
                       ELSE IF ToInt(name) + 1 > Len(args) THEN Raised("IndexError")
                       ELSE Prepend(args[ToInt(name) + 1],
                                    FormatFrom(s, args, close + 1, "manual", next))
             ELSE Raised("KeyError")

\* s.format(args...)
Format(s, args) == FormatFrom(s, args, 1, "unset", 0)

\* html.escape(message): & and < replaced by entities.
RECURSIVE Escape(_)
Escape(text) ==
    IF Len(text) = 0 THEN <<>>
    ELSE (IF text[1] = 38 THEN <<38, 97, 109, 112, 59>>
          ELSE IF text[1] = 60 THEN <<38, 108, 116, 59>>
          ELSE <<text[1]>>) \o Escape(Tail(text))

\* page escaping its message.
page_escaped(msg) == Format(Template, <<Escape(msg)>>)

\* page formatting its own output once more.
page_reformatted(msg) ==
    LET once == Format(Template, <<msg>>)
    IN  IF once.exc = "None" THEN Format(once.val, <<msg>>) ELSE once

\* page keeping what it rendered before in a shared buffer.
page_accumulating(msg) ==
    Format(Template, <<(IF cur = <<>> THEN <<>> ELSE cur[1].m) \o msg>>)

\* page showing a count of the requests served.
page_counting(msg) == Format(Template, <<msg \o <<DIGIT0 + served>>>>)

\* page(message), main.py lines 13-37: html = TEMPLATE.format(message);
\* return html.  An exception of format propagates to the caller.
page(msg) == Format(Template, <<msg>>)

\* Longest message a caller passes to page.
MaxLen == 3

\* Characters of the messages: < & { } 0 and e-acute (not ASCII).
Alphabet == {60, 38, LBRACE, RBRACE, DIGIT0, 233}

Messages == UNION {[1..n -> Alphabet] : n \in 0..MaxLen}

\* Messages of the calls that come between two calls page(probe).
OtherMessages == {MESSAGE, <<>>, <<LBRACE, DIGIT0, RBRACE>>}

(***************************************************************************)
(* Direct calls of page.                                                   *)
(***************************************************************************)
\* Calls of page in one run.
MaxCalls == 3

\* A caller evaluates page(M): main.py lines 13-37, as test_main.py line 16.
\* The call is recorded with its number n in the run.
CallPage(M) ==
    LET n == IF cur = <<>> THEN 1 ELSE cur[1].n + 1
        c == [m |-> M, r |-> page(M), n |-> n]
    IN  /\ n <= MaxCalls
        /\ cur' = <<c>>
        /\ first' = IF first = <<>> /\ M = probe THEN <<c>> ELSE first
        /\ UNCHANGED <<probe, httpVars>>

CallProbe == CallPage(probe)

CallOther == \E M \in OtherMessages : CallPage(M)

(***************************************************************************)
(* UTF-8, the charset Flask encodes a str response body with and the one   *)
(* test_main.py line 17 decodes the body with.                             *)
(***************************************************************************)
\* The bytes of one code point.
EncodeChar(c) ==
    IF c < 128 THEN <<c>>
    ELSE IF c < 2048 THEN <<192 + (c \div 64), 128 + (c % 64)>>
    ELSE IF c < 65536
         THEN <<224 + (c \div 4096), 128 + ((c \div 64) % 64), 128 + (c % 64)>>
    ELSE <<240 + (c \div 262144), 128 + ((c \div 4096) % 64),
           128 + ((c \div 64) % 64), 128 + (c % 64)>>

\* text.encode("utf-8"): the bytes of the code points, in order (computed
\* by halves).
RECURSIVE UTF8Encode(_)
UTF8Encode(text) ==
    IF Len(text) = 0 THEN <<>>
    ELSE IF Len(text) = 1 THEN EncodeChar(text[1])
    ELSE UTF8Encode(SubSeq(text, 1, Len(text) \div 2))
         \o UTF8Encode(SubSeq(text, (Len(text) \div 2) + 1, Len(text)))

\* A byte 10xxxxxx continues a character.
IsContinuation(b) == b >= 128 /\ b < 192

\* The code point of the bytes of one character.
DecodeChar(d) ==
    IF d[1] < 128 THEN d[1]
    ELSE IF d[1] < 224 THEN (d[1] - 192) * 64 + (d[2] - 128)
    ELSE IF d[1] < 240
         THEN (d[1] - 224) * 4096 + (d[2] - 128) * 64 + (d[3] - 128)
    ELSE (d[1] - 240) * 262144 + (d[2] - 128) * 4096
         + (d[3] - 128) * 64 + (d[4] - 128)

\* data.decode("utf-8"), for well-formed data: the code points of its
\* characters, in order (computed by halves, cut where a character starts).
RECURSIVE UTF8Decode(_)
UTF8Decode(data) ==
    LET Starts == {k \in 2..Len(data) : ~IsContinuation(data[k])}
        Mid == (Len(data) \div 2) + 1
        Dist(k) == IF k >= Mid THEN k - Mid ELSE Mid - k
        Cut == CHOOSE k \in Starts : \A l \in Starts : Dist(k) <= Dist(l)
    IN  IF Len(data) = 0 THEN <<>>
        ELSE IF Starts = {} THEN <<DecodeChar(data)>>
        ELSE UTF8Decode(SubSeq(data, 1, Cut - 1))
             \o UTF8Decode(SubSeq(data, Cut, Len(data)))

(***************************************************************************)
(* The Flask application: app = Flask(__name__), main.py line 11, and the  *)
(* route registered by @app.route('/'), line 39.                           *)
(***************************************************************************)
\* Server threads handling requests at the same time.
NThreads == 2
\* Requests accepted in one run.
MaxRequests == 3

Threads == 1..NThreads

Methods == {"GET", "HEAD", "OPTIONS", "POST"}
Paths == {"/", "/other"}

\* What else a request carries: query string, a header, a body.
Extras ==
    { [query |-> "", header |-> "", body |-> ""],
      [query |-> "message=x", header |-> "", body |-> ""],
      [query |-> "", header |-> "X-Message: x", body |-> "message=x"] }

\* The requests clients send: every method on every path, and the GET on
\* '/' with each of the extras as well.
Requests ==
    LET All == { [method |-> m, path |-> p, query |-> e.query,
                  header |-> e.header, body |-> e.body] :
                 m \in Methods, p \in Paths, e \in Extras }
    IN  { r \in All : (r.method = "GET" /\ r.path = "/")
                      \/ (r.query = "" /\ r.header = "") }

\* The route registered for POST as well, methods=["GET", "POST"].
AddUrlRuleAllowingPost(rule, endpoint, methods) ==
    [ rule |-> rule,
      endpoint |-> endpoint,
      methods |-> methods \cup {"POST", "HEAD", "OPTIONS"},
      provide_automatic_options |-> "OPTIONS" \notin methods ]

\* app.route(rule) with no methods argument, i.e. app.add_url_rule(rule,
\* endpoint, view, methods): Flask takes methods ("GET",) when none is given,
\* adds OPTIONS (answered by Flask itself) unless the view lists it, and
\* Werkzeug's Rule adds HEAD wherever GET is allowed.
AddUrlRule(rule, endpoint, methods) ==
    [ rule |-> rule,
      endpoint |-> endpoint,
      methods |-> methods \cup (IF "GET" \in methods THEN {"HEAD"} ELSE {})
                          \cup {"OPTIONS"},
      provide_automatic_options |-> "OPTIONS" \notin methods ]

\* The url map once main.py is imported: the one route of line 39.
Routes == {AddUrlRule("/", "get_page", {"GET"})}

\* The rules whose path is the request's (the query string is no part of it).
Matching(r) == {u \in url_map : u.rule = r.path}

Response(status, body, allow, by) ==
    [status |-> status, body |-> body, allow |-> allow, by |-> by]

\* Accepting a request: the server hands it to an idle thread.
Accept(t, r) ==
    /\ pc[t] = "idle"
    /\ served < MaxRequests
    /\ req' = [req EXCEPT ![t] = <<r>>]
    /\ pc' = [pc EXCEPT ![t] = "dispatch"]
    /\ served' = served + 1
    /\ UNCHANGED <<pageVars, url_map, message, html, resp, firstGet>>

\* Routing: no rule for the path, Werkzeug's NotFound (404).  The body of
\* the framework's own pages is not modelled (by = "framework").
DispatchNotFound(t) ==
    /\ pc[t] = "dispatch"
    /\ Matching(req[t][1]) = {}
    /\ resp' = [resp EXCEPT ![t] = <<Response(404, <<>>, {}, "framework")>>]
    /\ pc' = [pc EXCEPT ![t] = "respond"]
    /\ UNCHANGED <<pageVars, url_map, req, message, html, firstGet, served>>

\* Routing: a rule for the path, none for the method: MethodNotAllowed (405).
DispatchMethodNotAllowed(t) ==
    /\ pc[t] = "dispatch"
    /\ Matching(req[t][1]) # {}
    /\ \A u \in Matching(req[t][1]) : req[t][1].method \notin u.methods
    /\ resp' = [resp EXCEPT ![t] =
            <<Response(405, <<>>, UNION {u.methods : u \in Matching(req[t][1])},
                       "framework")>>]
    /\ pc' = [pc EXCEPT ![t] = "respond"]
    /\ UNCHANGED <<pageVars, url_map, req, message, html, firstGet, served>>

\* Routing: OPTIONS on a rule with automatic options: Flask answers itself
\* (make_default_options_response), the view is not called.
DispatchOptions(t) ==
    /\ pc[t] = "dispatch"
    /\ \E u \in Matching(req[t][1]) :
          /\ req[t][1].method \in u.methods
          /\ req[t][1].method = "OPTIONS"
          /\ u.provide_automatic_options
          /\ resp' = [resp EXCEPT ![t] = <<Response(200, <<>>, u.methods, "framework")>>]
    /\ pc' = [pc EXCEPT ![t] = "respond"]
    /\ UNCHANGED <<pageVars, url_map, req, message, html, firstGet, served>>

\* Routing: the rule's view function is called: get_page, main.py line 40.
DispatchView(t) ==
    /\ pc[t] = "dispatch"
    /\ \E u \in Matching(req[t][1]) :
          /\ req[t][1].method \in u.methods
          /\ ~(req[t][1].method = "OPTIONS" /\ u.provide_automatic_options)
          /\ u.endpoint = "get_page"
    /\ pc' = [pc EXCEPT ![t] = "get_page"]
    /\ UNCHANGED <<pageVars, url_map, req, message, html, resp, firstGet, served>>

\* get_page with a message that lost its last three characters.
GetPageL47Truncated(t) ==
    /\ pc[t] = "get_page"
    /\ message' = [message EXCEPT ![t] = <<SubSeq(MESSAGE, 1, Len(MESSAGE) - 3)>>]
    /\ pc' = [pc EXCEPT ![t] = "page"]
    /\ UNCHANGED <<pageVars, url_map, req, html, resp, firstGet, served>>

\* get_page taking the message from the query string when there is one
\* (request.args.get("message", default)): "x" for "message=x".
GetPageL47FromQuery(t) ==
    /\ pc[t] = "get_page"
    /\ message' = [message EXCEPT ![t] =
            IF req[t][1].query = "message=x" THEN <<<<120>>>> ELSE <<MESSAGE>>]
    /\ pc' = [pc EXCEPT ![t] = "page"]
    /\ UNCHANGED <<pageVars, url_map, req, html, resp, firstGet, served>>

\* main.py line 47: message = "Hello CGI!!! Welcome to the world of DevOps :)"
GetPageL47(t) ==
    /\ pc[t] = "get_page"
    /\ message' = [message EXCEPT ![t] = <<MESSAGE>>]
    /\ pc' = [pc EXCEPT ![t] = "page"]
    /\ UNCHANGED <<pageVars, url_map, req, html, resp, firstGet, served>>

\* page building its text in a buffer shared by the threads: a thread that
\* formats while another holds its text gets both messages.
PageL23SharedBuffer(t) ==
    /\ pc[t] = "page"
    /\ html' = [html EXCEPT ![t] =
            IF \E u \in Threads : u # t /\ pc[u] = "return"
            THEN <<Format(Template, <<message[t][1] \o message[t][1]>>)>>
            ELSE <<Format(Template, <<message[t][1]>>)>>]
    /\ pc' = [pc EXCEPT ![t] = "return"]
    /\ UNCHANGED <<pageVars, url_map, req, message, resp, firstGet, served>>

\* main.py line 48 calling page(message): lines 23-36, html = ....format(message)
PageL23(t) ==
    /\ pc[t] = "page"
    /\ html' = [html EXCEPT ![t] = <<page(message[t][1])>>]
    /\ pc' = [pc EXCEPT ![t] = "return"]
    /\ UNCHANGED <<pageVars, url_map, req, message, resp, firstGet, served>>

\* main.py lines 37 and 48: html is returned to Flask, which makes the
\* response of a str: status 200, the text encoded in UTF-8; the body of an
\* answer to HEAD is dropped.  An exception of the view gives a 500.
Return(t) ==
    /\ pc[t] = "return"
    /\ resp' = [resp EXCEPT ![t] =
            IF html[t][1].exc # "None"
            THEN <<Response(500, <<>>, {}, "framework")>>
            ELSE IF req[t][1].method = "HEAD"
            THEN <<Response(200, <<>>, {}, "view")>>
            ELSE <<Response(200, UTF8Encode(html[t][1].val), {}, "view")>>]
    /\ pc' = [pc EXCEPT ![t] = "respond"]
    /\ UNCHANGED <<pageVars, url_map, req, message, html, firstGet, served>>

\* The response is sent; the request and the handler's locals are gone.
Deliver(t) ==
    /\ pc[t] = "respond"
    /\ firstGet' = IF /\ firstGet = <<>>
                      /\ req[t][1].method = "GET"
                      /\ req[t][1].path = "/"
                   THEN resp[t]
                   ELSE firstGet
    /\ pc' = [pc EXCEPT ![t] = "idle"]
    /\ req' = [req EXCEPT ![t] = <<>>]
    /\ message' = [message EXCEPT ![t] = <<>>]
    /\ html' = [html EXCEPT ![t] = <<>>]
    /\ resp' = [resp EXCEPT ![t] = <<>>]
    /\ UNCHANGED <<pageVars, url_map, served>>

(***************************************************************************)
(* Specifications.                                                         *)
(***************************************************************************)
\* The application after import, no request in progress.
InitApp ==
    /\ url_map = Routes
    /\ pc = [t \in Threads |-> "idle"]
    /\ req = [t \in Threads |-> <<>>]
    /\ message = [t \in Threads |-> <<>>]
    /\ html = [t \in Threads |-> <<>>]
    /\ resp = [t \in Threads |-> <<>>]
    /\ firstGet = <<>>
    /\ served = 0

\* No call of page made yet.
InitCalls ==
    /\ first = <<>>
    /\ cur = <<>>

\* The application serving requests.
Init ==
    /\ InitApp
    /\ InitCalls
    /\ probe = MESSAGE

Next ==
    \/ \E t \in Threads, r \in Requests : Accept(t, r)
    \/ \E t \in Threads : DispatchNotFound(t)
    \/ \E t \in Threads : DispatchMethodNotAllowed(t)
    \/ \E t \in Threads : DispatchOptions(t)
    \/ \E t \in Threads : DispatchView(t)
    \/ \E t \in Threads : GetPageL47(t)
    \/ \E t \in Threads : PageL23(t)
    \/ \E t \in Threads : Return(t)
    \/ \E t \in Threads : Deliver(t)

Spec == Init /\ [][Next]_vars

\* Callers of page with every message of the bounded set.
InitPage ==
    /\ InitApp
    /\ InitCalls
    /\ probe \in Messages

NextPage ==
    \/ CallProbe
    \/ CallOther

SpecPage == InitPage /\ [][NextPage]_vars

(***************************************************************************)
(* Properties of page, checked under SpecPage.                             *)
(***************************************************************************)
\* The template before and after its placeholder {0} of line 32.
Prefix ==
    TemplateL23 \o TemplateL24 \o TemplateL25 \o TemplateL26 \o TemplateL27
    \o TemplateL28 \o TemplateL29 \o TemplateL30 \o TemplateL31
    \o SubSeq(TemplateL32, 1, 16)

Suffix ==
    SubSeq(TemplateL32, 20, 24) \o TemplateL33 \o TemplateL34 \o TemplateL35
    \o TemplateL36

\* "<br>"
LineBreak == <<60, 98, 114, 62>>

\* sub occurs in text as a contiguous run.
Contains(text, sub) ==
    \E i \in 0..(Len(text) - Len(sub)) : SubSeq(text, i + 1, i + Len(sub)) = sub

\* C3: whatever message M a caller passes, the text page(M) returns contains
\* M itself, character for character, braces and HTML metacharacters included.
C3_MessageIsLiteralSubstring ==
    \A k \in 1..Len(cur) : Contains(cur[k].r.val, cur[k].m)

\* A call was made with the message "{0}", and one with "<&{".
C3_Witness ==
    /\ cur # <<>>
    /\ cur[1].m = <<LBRACE, DIGIT0, RBRACE>>
    /\ first # <<>>
    /\ first[1].m = <<60, 38, LBRACE>>

\* C4: page(M) is Prefix, then M, then Suffix, for two texts that do not
\* depend on M; Suffix starts with "<br>", and the lengths add up.
C4_PrefixMessageSuffix ==
    /\ SubSeq(Suffix, 1, Len(LineBreak)) = LineBreak
    /\ \A k \in 1..Len(cur) :
          /\ cur[k].r = Returned(Prefix \o cur[k].m \o Suffix)
          /\ Len(cur[k].r.val) = Len(Prefix) + Len(cur[k].m) + Len(Suffix)

\* A call was made with a message of the greatest length, holding a brace.
C4_Witness ==
    /\ cur # <<>>
    /\ Len(cur[1].m) = MaxLen
    /\ cur[1].m[1] = RBRACE
    /\ cur[1].r.exc = "None"

C9_NeverRaises ==
    \A k \in 1..Len(cur) :
        /\ cur[k].r.exc = "None"
        /\ cur[k].m = <<>> => cur[k].r.val = Prefix \o Suffix

\* page was called with the empty message as the second call of a run whose
\* first call passed an unclosed brace.
C9_Witness ==
    /\ cur # <<>>
    /\ cur[1].m = <<>>
    /\ cur[1].n = 2
    /\ first # <<>>
    /\ first[1].m = <<LBRACE>>

(***************************************************************************)
(* Properties of the application, checked under Spec.                      *)
(***************************************************************************)
\* What test_message compares the body with: page(MESSAGE), and its bytes.
Rendered == page(MESSAGE).val

RenderedBytes == UTF8Encode(Rendered)

\* What the test reads back from those bytes: response.data.decode("utf-8").
RenderedDecoded == UTF8Decode(RenderedBytes)

\* Thread t has a response ready for its request.
Responding(t) == pc[t] = "respond"

IsGetRoot(r) == r.method = "GET" /\ r.path = "/"

\* Thread t has entered get_page for its request.
InGetPage(t) == pc[t] \in {"get_page", "page", "return"} \/ message[t] # <<>>

\* C1: the body of the response to a GET on '/' is page(MESSAGE), encoded in
\* UTF-8: it decodes to exactly that text, as test_message asserts.
C1_BodyIsRenderedPage ==
    \A t \in Threads :
        Responding(t) /\ IsGetRoot(req[t][1]) =>
            /\ resp[t][1].body = RenderedBytes
            /\ RenderedDecoded = Rendered

\* A GET on '/' with nothing else in the request has its response ready.
C1_Witness ==
    \E t \in Threads :
        /\ Responding(t)
        /\ req[t][1] = [method |-> "GET", path |-> "/", query |-> "",
                        header |-> "", body |-> ""]
        /\ Len(resp[t][1].body) > 0

\* C2: a GET on '/' is answered 200 whatever else it carries, and get_page
\* never ends with an exception.
C2_GetRootIs200 ==
    \A t \in Threads :
        /\ Responding(t) /\ IsGetRoot(req[t][1]) => resp[t][1].status = 200
        /\ html[t] # <<>> => html[t][1].exc = "None"

\* A GET on '/' that carries a header and a body has its response ready.
C2_Witness ==
    \E t \in Threads :
        /\ Responding(t)
        /\ IsGetRoot(req[t][1])
        /\ req[t][1].header # ""
        /\ resp[t][1].by = "view"

\* C6: the message get_page renders is the fixed one whatever the request,
\* and two GETs on '/' get the same response however they differ.
C6_IndependentOfRequestData ==
    /\ \A t \in Threads : message[t] # <<>> => message[t][1] = MESSAGE
    /\ \A t, u \in Threads :
          /\ Responding(t) /\ IsGetRoot(req[t][1])
          /\ Responding(u) /\ IsGetRoot(req[u][1])
          => resp[t] = resp[u]

\* Two GETs on '/', one with a query string and one without, both answered.
C6_Witness ==
    \E t, u \in Threads :
        /\ Responding(t) /\ IsGetRoot(req[t][1]) /\ req[t][1].query = "message=x"
        /\ Responding(u) /\ IsGetRoot(req[u][1]) /\ req[u][1].query = ""

\* C7: a GET on '/' gets what the first GET on '/' got, status 200,
\* whatever was requested before, and the registered routes stay as they
\* were after import.
C7_StatelessIdempotent ==
    /\ url_map = Routes
    /\ firstGet # <<>> => firstGet[1].status = 200
    /\ \A t \in Threads :
          Responding(t) /\ IsGetRoot(req[t][1]) /\ firstGet # <<>>
          => resp[t][1] = firstGet[1]

\* The last request of a run is a GET on '/', answered after the first GET
\* on '/' was delivered.
C7_Witness ==
    /\ firstGet # <<>>
    /\ served = MaxRequests
    /\ \E t \in Threads : Responding(t) /\ IsGetRoot(req[t][1])

Alone == Prefix \o MESSAGE \o Suffix

AloneBytes == UTF8Encode(Alone)

\* C10: whatever the other threads do meanwhile, a thread in get_page holds
\* the fixed message and the page of it, and answers a GET on '/' with
\* status 200 and that page, as when it runs alone.
C10_ConcurrentRequestsIndependent ==
    \A t \in Threads :
        /\ html[t] # <<>> => html[t][1] = Returned(Alone)
        /\ Responding(t) /\ IsGetRoot(req[t][1]) =>
              resp[t][1] = Response(200, AloneBytes, {}, "view")

\* Two GETs on '/' are handled at once: one is answered while the other is
\* between formatting and returning.
C10_Witness ==
    \E t, u \in Threads :
        /\ t # u
        /\ Responding(t) /\ IsGetRoot(req[t][1])
        /\ pc[u] = "return" /\ IsGetRoot(req[u][1])

====
